---- MODULE Spec2Model ----
(***************************************************************************)
(* Pixelator + quantizer: the pixel pipeline of src/lib/core.ts            *)
(* (processImage, buildPalette, qunatizeImage, pixelateImage), the worker   *)
(* of src/lib/image-worker.ts and the request logic of                     *)
(* src/routes/+page.svelte (processAndRender, worker.onmessage, the        *)
(* effects that call them).                                                *)
(*                                                                         *)
(* Typed arrays are references: a buffer is an id into `heap`, and         *)
(* `new Uint8ClampedArray(data)` allocates a new id holding a copy.        *)
(* Byte i of a JS buffer is element i + 1 of the TLA+ sequence.            *)
(***************************************************************************)
EXTENDS Integers, Sequences, FiniteSets, TLC

VARIABLES
    \* ---- direct calls of processImage (core.ts) ----
    heap,         \* buffer id -> sequence of bytes
    source,       \* the ImageData handed to processImage
    args,         \* the other arguments of processImage
    result,       \* the ImageData processImage returned, or NoResult
    trace,        \* what the call did: palette built, bytes before each stage
    srcBytes,     \* the bytes of the source buffer when the call was made
    \* ---- the page (+page.svelte) and its worker (image-worker.ts) ----
    mounted,        \* onMount has run
    worker,         \* line 23: TRUE when `worker` holds a Worker
    originalCanvas, \* line 8: TRUE when it holds an OffscreenCanvas
    image,          \* line 17: the ImageData of the loaded picture, or NoImage
    controls,       \* lines 11-15: doPixelate, blockSize, doQuantize, paletteSize
    processTimeout, \* line 19: "null" or "set"
    timerArmed,     \* the browser still holds the timer of processTimeout
    isProcessing,   \* line 20
    pendingRun,     \* line 21
    toWorker,       \* requests posted to the worker, not yet handled by it
    toMain,         \* responses posted by the worker, not yet handled by the page
    canvas,         \* what the output canvas shows
    hist            \* history of the request logic (see HistInit)

coreVars == <<heap, source, args, result, trace, srcBytes>>
pageVars == <<mounted, worker, originalCanvas, image, controls, processTimeout,
              timerArmed, isProcessing, pendingRun, toWorker, toMain, canvas, hist>>
vars == <<heap, source, args, result, trace, srcBytes,
          mounted, worker, originalCanvas, image, controls, processTimeout,
          timerArmed, isProcessing, pendingRun, toWorker, toMain, canvas, hist>>

(***************************************************************************)
(* Bounds of the model and constants of the program                        *)
(***************************************************************************)
\* largest width and height of a generated test picture
MaxDim == 4
\* most initial centre tuples a checked call of buildPalette may start from
MaxSeedTuples == 64
\* most requests awaiting their response that the page model lets build up
MaxInFlight == 2

MaxPaletteSize == 256
MaxSamples == 5000
DefaultMaxKMeansIters == 8
InitialBlockSize == 16
InitialPaletteSize == 16

Min(a, b) == IF a < b THEN a ELSE b
Max(a, b) == IF a > b THEN a ELSE b

\* Math.floor of the rational num/den (den > 0)
Floor(num, den) == num \div den

\* Math.round of the rational num/den (den > 0): halves round towards +Infinity
Round(num, den) == (2 * num + den) \div (2 * den)

(***************************************************************************)
(* Buffers and ImageData                                                   *)
(***************************************************************************)
NoResult == [width |-> -1, height |-> -1, data |-> 0]

\* new Uint8ClampedArray(bytes): a fresh buffer, never an existing id
NewId(h) == Cardinality(DOMAIN h) + 1

Alloc(h, bytes) == (NewId(h) :> bytes) @@ h

\* the RGB triple of pixel i (0-based) of a byte sequence
RGBAt(bytes, i) == <<bytes[4 * i + 1], bytes[4 * i + 2], bytes[4 * i + 3]>>

RGBAAt(bytes, i) ==
    <<bytes[4 * i + 1], bytes[4 * i + 2], bytes[4 * i + 3], bytes[4 * i + 4]>>

NumPixels(bytes) == Len(bytes) \div 4

(***************************************************************************)
(* buildPalette (core.ts 26-107)                                           *)
(***************************************************************************)
\* bestDist starts at Infinity: every distance is below it
Infinity == -1

\* a scan written with <=: the last of the nearest entries wins
CloserOrEqual(dist, bestDist) == bestDist = Infinity \/ dist <= bestDist

Closer(dist, bestDist) == bestDist = Infinity \/ dist < bestDist

\* dr * dr + dg * dg + db * db
Dist(p, q) ==
    (p[1] - q[1]) * (p[1] - q[1]) + (p[2] - q[2]) * (p[2] - q[2])
        + (p[3] - q[3]) * (p[3] - q[3])

\* one pass of the loop body of lines 64-75 at position c (0-based):
\* best is <<bestIdx, bestDist>>
ScanStep(p, list, c, best) ==
    LET dist == Dist(p, list[c + 1])
    IN  IF Closer(dist, best[2]) THEN <<c, dist>> ELSE best

RECURSIVE ScanRange(_, _, _, _, _)
\* the passes at positions lo .. hi - 1 in increasing order, starting from
\* best. The range is split in two to keep the evaluation shallow; bestIdx
\* after the first half is below mid, so the test only orders the evaluation.
ScanRange(p, list, lo, hi, best) ==
    IF hi <= lo THEN best
    ELSE IF hi = lo + 1 THEN ScanStep(p, list, lo, best)
    ELSE LET mid   == (lo + hi) \div 2
             first == ScanRange(p, list, lo, mid, best)
         IN  IF first[1] < mid THEN ScanRange(p, list, mid, hi, first) ELSE best

\* let bestIdx = 0; let bestDist = Infinity; for (c = 0; c < list.length; c++)
\* ...: the value is bestIdx (0-based)
NearestIdx(p, list) == ScanRange(p, list, 0, Len(list), <<0, Infinity>>)[1]

\* a clamp whose upper end is one short
ClampKOneShort(k) == Max(1, Min(k, MaxPaletteSize - 1))

\* k = Math.max(1, Math.min(k, 256))
ClampK(k) == Max(1, Min(k, MaxPaletteSize))

\* step = Math.max(1, Math.floor(totalPixels / maxSamples))
SampleStep(totalPixels) == Max(1, Floor(totalPixels, MaxSamples))

\* for (i = 0; i < totalPixels; i += step) samples.push(rgb of pixel i)
Samples(bytes, totalPixels) ==
    LET step == SampleStep(totalPixels)
        n    == (totalPixels + step - 1) \div step
    IN  [j \in 1..n |-> RGBAt(bytes, (j - 1) * step)]

\* samples[Math.floor(Math.random() * samples.length)]: Math.random() is any
\* real of [0, 1), so the index is any of 0 .. length - 1
Draws(samples) == {samples[i + 1] : i \in 0..(Len(samples) - 1)}

\* the initial centres: k draws, repetition allowed
InitialCenters(samples, k) == [1..k -> Draws(samples)]

RECURSIVE SumFrom(_, _, _, _, _)
\* sums[c][ch] over the samples from position i (1-based) on
SumFrom(samples, assignments, c, ch, i) ==
    IF i > Len(samples) THEN 0
    ELSE (IF assignments[i] = c THEN samples[i][ch] ELSE 0)
             + SumFrom(samples, assignments, c, ch, i + 1)

CountOf(assignments, c) ==
    Cardinality({i \in DOMAIN assignments : assignments[i] = c})

\* an iteration that sets a centre without samples to black, not to a draw
KMeansIterationBlackEmpty(centers, samples, k) ==
    LET assignments == [i \in 1..Len(samples) |-> NearestIdx(samples[i], centers)]
        counts == [c \in 0..(k - 1) |-> CountOf(assignments, c)]
    IN  {[j \in 1..k |->
            IF counts[j - 1] = 0 THEN <<0, 0, 0>>
            ELSE <<Round(SumFrom(samples, assignments, j - 1, 1, 1), counts[j - 1]),
                   Round(SumFrom(samples, assignments, j - 1, 2, 1), counts[j - 1]),
                   Round(SumFrom(samples, assignments, j - 1, 3, 1), counts[j - 1])>>]}

\* one iteration of the loop of lines 58-104 from `centers`: every centre
\* list the iteration can end with (one per outcome of the re-seed draws)
KMeansIteration(centers, samples, k) ==
    LET assignments == [i \in 1..Len(samples) |-> NearestIdx(samples[i], centers)]
        counts == [c \in 0..(k - 1) |-> CountOf(assignments, c)]
        empty  == {c \in 0..(k - 1) : counts[c] = 0}
        mean(c) == <<Round(SumFrom(samples, assignments, c, 1, 1), counts[c]),
                     Round(SumFrom(samples, assignments, c, 2, 1), counts[c]),
                     Round(SumFrom(samples, assignments, c, 3, 1), counts[c])>>
        kept == [c \in (0..(k - 1)) \ empty |-> mean(c)]
    IN  {[j \in 1..k |-> IF (j - 1) \in empty THEN reseed[j - 1] ELSE kept[j - 1]] :
            reseed \in [empty -> Draws(samples)]}

\* a loop that never runs: the palette is the initial draws
KMeansNoIterations(centerLists, samples, k, iters) == centerLists

RECURSIVE KMeans(_, _, _, _)
\* the centre lists reachable after `iters` more iterations
KMeans(centerLists, samples, k, iters) ==
    IF iters <= 0 THEN centerLists
    ELSE KMeans(UNION {KMeansIteration(c, samples, k) : c \in centerLists},
                samples, k, iters - 1)

\* every palette buildPalette can return
buildPalette(bytes, width, height, k0, maxIters) ==
    LET totalPixels == width * height
        k == ClampK(k0)
        samples == Samples(bytes, totalPixels)
    IN  IF Len(samples) = 0 THEN {<< <<0, 0, 0>> >>}
        ELSE KMeans(InitialCenters(samples, k), samples, k, maxIters)

(***************************************************************************)
(* qunatizeImage (core.ts 109-143)                                         *)
(***************************************************************************)
\* the bytes of the buffer after the loop: each pixel reads its own RGB, then
\* overwrites it with palette[bestIdx]; byte 3 of a pixel is not written
qunatizeImage(bytes, palette) ==
    [j \in 1..Len(bytes) |->
        LET i  == (j - 1) \div 4
            ch == (j - 1) % 4
        IN  IF ch = 3 \/ i >= NumPixels(bytes) THEN bytes[j]
            ELSE palette[NearestIdx(RGBAt(bytes, i), palette) + 1][ch + 1]]

(***************************************************************************)
(* pixelateImage (core.ts 145-174)                                         *)
(***************************************************************************)
\* size = Math.max(1, Math.floor(blockSize)); blockSize is num/den
BlockSizeOf(blockSize) == Max(1, Floor(blockSize[1], blockSize[2]))

\* a block filled with its top-left pixel, not its centre
PixelateBlockTopLeft(bytes, width, height, size, bx, by) ==
    LET cIdx == (by * width + bx) * 4
        maxY == Min(by + size, height)
        maxX == Min(bx + size, width)
    IN  [j \in 1..Len(bytes) |->
            LET i == (j - 1) \div 4
                x == i % width
                y == i \div width
            IN  IF x >= bx /\ x < maxX /\ y >= by /\ y < maxY
                THEN bytes[cIdx + ((j - 1) % 4) + 1]
                ELSE bytes[j]]

\* the body of the two outer loops for the block at (bx, by): read the centre
\* pixel of the buffer as it is now, write it over the block
PixelateBlock(bytes, width, height, size, bx, by) ==
    LET cx   == Min(bx + Floor(size, 2), width - 1)
        cy   == Min(by + Floor(size, 2), height - 1)
        cIdx == (cy * width + cx) * 4
        maxY == Min(by + size, height)
        maxX == Min(bx + size, width)
    IN  [j \in 1..Len(bytes) |->
            LET i == (j - 1) \div 4
                x == i % width
                y == i \div width
            IN  IF x >= bx /\ x < maxX /\ y >= by /\ y < maxY
                THEN bytes[cIdx + ((j - 1) % 4) + 1]
                ELSE bytes[j]]

RECURSIVE PixelateFrom(_, _, _, _, _, _)
\* the outer loops from block (bx, by) on, in the order the code visits them
PixelateFrom(bytes, width, height, size, bx, by) ==
    IF by >= height THEN bytes
    ELSE IF bx >= width
         THEN PixelateFrom(bytes, width, height, size, 0, by + size)
         ELSE PixelateFrom(PixelateBlock(bytes, width, height, size, bx, by),
                           width, height, size, bx + size, by)

pixelateImage(bytes, width, height, blockSize) ==
    PixelateFrom(bytes, width, height, BlockSizeOf(blockSize), 0, 0)

(***************************************************************************)
(* processImage (core.ts 3-24)                                             *)
(***************************************************************************)
\* new ImageData(data, width, height): the ImageData wraps the source's buffer
NewImageDataAlias(h, src) ==
    [heap |-> h,
     copy |-> [width |-> src.width, height |-> src.height, data |-> src.data]]

\* new Uint8ClampedArray(data.length): a fresh buffer of zeros
NewImageDataBlank(h, src) ==
    [heap |-> Alloc(h, [j \in 1..Len(h[src.data]) |-> 0]),
     copy |-> [width |-> src.width, height |-> src.height, data |-> NewId(h)]]

\* const copy = new ImageData(new Uint8ClampedArray(data), width, height):
\* the heap after the allocation and the ImageData made
NewImageDataCopy(h, src) ==
    [heap |-> Alloc(h, h[src.data]),
     copy |-> [width |-> src.width, height |-> src.height, data |-> NewId(h)]]

\* every outcome of processImage(src, a.pixelate, ...) on heap h (one per
\* palette the random draws can give): the heap afterwards, the ImageData
\* returned, and what the stages saw
processImage(h, src, a) ==
    LET made == NewImageDataCopy(h, src)
        h1   == made.heap
        copy == made.copy
        id   == copy.data
        palettes == IF a.quantize
                    THEN buildPalette(h1[id], copy.width, copy.height,
                                      a.paletteSize, a.maxKMeansIters)
                    ELSE {<<>>}
    IN  {LET q  == IF a.quantize THEN qunatizeImage(h1[id], pal) ELSE h1[id]
             h2 == [h1 EXCEPT ![id] = q]
             p  == IF a.pixelate
                   THEN pixelateImage(h2[id], copy.width, copy.height, a.blockSize)
                   ELSE h2[id]
             h3 == [h2 EXCEPT ![id] = p]
         IN  [heap |-> h3, ret |-> copy,
              palette |-> pal, beforeQuantize |-> h1[id], beforePixelate |-> q] :
         pal \in palettes}

(***************************************************************************)
(* Inputs of the checked calls                                             *)
(***************************************************************************)
\* pixel i of a generated picture: all four channels differ from pixel to
\* pixel, so a pixel copied from the wrong place shows
GradientPixel(i) ==
    <<(37 * i + 11) % 256, (59 * i + 5) % 256, (83 * i + 7) % 256, 255 - i>>

BytesOf(pixels) ==
    [j \in 1..(4 * Len(pixels)) |-> pixels[((j - 1) \div 4) + 1][((j - 1) % 4) + 1]]

Picture(w, h, pixels) == [width |-> w, height |-> h, bytes |-> BytesOf(pixels)]

Gradient(w, h) == Picture(w, h, [i \in 1..(w * h) |-> GradientPixel(i - 1)])

\* the 4x1 picture of the spec's scenario A
ScenarioA ==
    Picture(4, 1, << <<0, 0, 0, 255>>, <<10, 0, 0, 255>>,
                     <<200, 200, 200, 255>>, <<210, 200, 200, 255>> >>)

\* pictures with repeated colours and with a pixel half way between two others
\* (a distance tie between two palette entries)
TiePictures ==
    { Picture(3, 1, << <<0, 0, 0, 9>>, <<10, 0, 0, 8>>, <<5, 0, 0, 7>> >>),
      Picture(3, 1, << <<10, 0, 0, 9>>, <<0, 0, 0, 8>>, <<5, 0, 0, 7>> >>),
      Picture(2, 2, << <<1, 2, 3, 4>>, <<1, 2, 3, 5>>,
                       <<1, 2, 4, 6>>, <<1, 2, 3, 7>> >>),
      Picture(1, 1, << <<255, 0, 128, 0>> >>) }

\* ImageData of zero pixels are included: buildPalette has a branch for them
Pictures ==
    {Gradient(w, h) : w \in 0..MaxDim, h \in 0..MaxDim}
        \cup {ScenarioA} \cup TiePictures

\* blockSize as num/den: integers, a fraction, zero and a negative
BlockSizes == {<<-1, 1>>, <<0, 1>>, <<1, 2>>, <<1, 1>>, <<2, 1>>, <<5, 2>>,
               <<3, 1>>, <<4, 1>>, <<16, 1>>}

PaletteSizes == {-1, 0, 1, 2, 3, 16, 256, 300}

IterCounts == {0, 1, DefaultMaxKMeansIters}

RECURSIVE Power(_, _)
Power(b, e) == IF e = 0 THEN 1 ELSE b * Power(b, e - 1)

\* the number of initial centre tuples of a quantizing call, capped
SeedTuples(pic, k) ==
    LET n == Cardinality(Draws(Samples(pic.bytes, pic.width * pic.height)))
    IN  IF n <= 1 THEN n
        ELSE IF ClampK(k) > 8 THEN MaxSeedTuples + 1
        ELSE Power(n, ClampK(k))

Arguments ==
    [pixelate : BOOLEAN, blockSize : BlockSizes, quantize : BOOLEAN,
     paletteSize : PaletteSizes, maxKMeansIters : IterCounts]

NoTrace == [palette |-> <<>>, beforeQuantize |-> <<>>, beforePixelate |-> <<>>]

(***************************************************************************)
(* The page before onMount (+page.svelte 6-23)                             *)
(***************************************************************************)
NoImage == [width |-> 0, height |-> 0, bytes |-> <<>>, none |-> TRUE]

HistInit ==
    [lastCallPosts |-> -2,   \* postMessage calls reached by the latest
                             \* processAndRender call; -1: it returned at
                             \* line 138; -2: no call yet
     pendingTaken |-> FALSE, \* line 141 was reached
     busyCalls |-> 0,        \* calls that passed line 138 with a request in
                             \* flight, since the latest response
     busyPosts |-> 0,        \* requests those calls posted at once
     lastN |-> 0,            \* busyCalls when the latest response arrived
     lastAtOnce |-> 0,       \* busyPosts when the latest response arrived
     lastFollowUps |-> 0]    \* requests posted on receiving the latest response

PageInit ==
    /\ mounted = FALSE
    /\ worker = FALSE
    /\ originalCanvas = FALSE
    /\ image = NoImage
    /\ controls = [doPixelate |-> TRUE, blockSize |-> InitialBlockSize,
                   doQuantize |-> TRUE, paletteSize |-> InitialPaletteSize]
    /\ processTimeout = "null"
    /\ timerArmed = FALSE
    /\ isProcessing = FALSE
    /\ pendingRun = FALSE
    /\ toWorker = <<>>
    /\ toMain = <<>>
    /\ canvas = <<>>
    /\ hist = HistInit

(***************************************************************************)
(* Direct calls of processImage on the bounded inputs                      *)
(***************************************************************************)
CoreInit ==
    /\ \E pic \in Pictures, a \in Arguments :
          /\ a.quantize => SeedTuples(pic, a.paletteSize) <= MaxSeedTuples
          /\ heap = (1 :> pic.bytes)
          /\ source = [width |-> pic.width, height |-> pic.height, data |-> 1]
          /\ args = a
          /\ srcBytes = pic.bytes
    /\ result = NoResult
    /\ trace = NoTrace
    /\ PageInit

CallProcessImage ==
    /\ result = NoResult
    /\ \E o \in processImage(heap, source, args) :
          /\ heap' = o.heap
          /\ result' = o.ret
          /\ trace' = [palette |-> o.palette, beforeQuantize |-> o.beforeQuantize,
                       beforePixelate |-> o.beforePixelate]
    /\ UNCHANGED <<source, args, srcBytes>>
    /\ UNCHANGED pageVars

CoreNext == CallProcessImage

SpecCore == CoreInit /\ [][CoreNext]_vars

(***************************************************************************)
(* The worker: self.onmessage (image-worker.ts 3-27)                       *)
(***************************************************************************)
\* every response the handler can post for the request `msg`. The request's
\* data is the worker's own structured clone (buffer 1); line 17 copies it
\* again, processImage is called with the default iteration count, and the
\* response carries the bytes of the returned buffer.
selfOnMessage(msg) ==
    LET h0 == (1 :> msg.data)
        made == NewImageDataCopy(h0, [width |-> msg.width, height |-> msg.height,
                                      data |-> 1])
        a == [pixelate |-> msg.doPixelate, blockSize |-> <<msg.blockSize, 1>>,
              quantize |-> msg.doQuantize, paletteSize |-> msg.paletteSize,
              maxKMeansIters |-> DefaultMaxKMeansIters]
    IN  {[width |-> o.ret.width, height |-> o.ret.height,
          buffer |-> o.heap[o.ret.data]] : o \in processImage(made.heap, made.copy, a)}

(***************************************************************************)
(* The page: processAndRender (+page.svelte 137-163)                       *)
(***************************************************************************)
\* requests posted whose response the page has not received
InFlight == Len(toWorker) + Len(toMain)

\* the state processAndRender reads and writes
PageState ==
    [isProcessing |-> isProcessing, pendingRun |-> pendingRun,
     toWorker |-> toWorker, hist |-> hist]

\* lines 148-152: worker.postMessage({width, height, data, ...}); the message
\* holds a structured clone of the picture and the controls' values of now
PostRequest(st, img, ctl) ==
    [st EXCEPT
        !.toWorker = Append(@, [width |-> img.width, height |-> img.height,
                                data |-> img.bytes,
                                doPixelate |-> ctl.doPixelate,
                                blockSize |-> ctl.blockSize,
                                doQuantize |-> ctl.doQuantize,
                                paletteSize |-> ctl.paletteSize]),
        !.hist.lastCallPosts = @ + 1]

\* a finally that leaves the flag set until a response arrives
FinallyKeepBusy(st) == st

\* lines 155-156: finally { isProcessing = false; ...
FinallyReset(st) == [st EXCEPT !.isProcessing = FALSE]

RECURSIVE processAndRenderFrom(_, _, _, _)
\* the call from state st; the postMessage of a picture and of plain values
\* does not throw, so the catch of line 153 is not entered
processAndRenderFrom(st, wrk, img, ctl) ==
    IF ~wrk \/ img.none THEN st
    ELSE IF st.isProcessing
         THEN [st EXCEPT !.pendingRun = TRUE, !.hist.pendingTaken = TRUE]
         ELSE LET busy   == [st EXCEPT !.isProcessing = TRUE]
                  posted == PostRequest(busy, img, ctl)
                  fin    == FinallyReset(posted)
              IN  IF fin.pendingRun
                  THEN processAndRenderFrom([fin EXCEPT !.pendingRun = FALSE],
                                            wrk, img, ctl)
                  ELSE fin

\* a call made by an event handler, with the history of the call: whether a
\* request was in flight when it was made, and what it posted
processAndRender(st, wrk, img, ctl) ==
    LET passes == wrk /\ ~img.none
        busy   == Len(st.toWorker) + Len(toMain) > 0
        st0    == [st EXCEPT !.hist.lastCallPosts = IF passes THEN 0 ELSE -1]
        st1    == processAndRenderFrom(st0, wrk, img, ctl)
        n      == Len(st1.toWorker) - Len(st.toWorker)
    IN  IF passes /\ busy
        THEN [st1 EXCEPT !.hist.busyCalls = @ + 1, !.hist.busyPosts = @ + n]
        ELSE st1

SetPageState(st) ==
    /\ isProcessing' = st.isProcessing
    /\ pendingRun' = st.pendingRun
    /\ toWorker' = st.toWorker
    /\ hist' = st.hist

\* the model lets a handler that calls processAndRender run while fewer than
\* MaxInFlight requests await their response
RoomForRequest == InFlight < MaxInFlight /\ hist.busyCalls < MaxInFlight

(***************************************************************************)
(* The page's event handlers                                               *)
(***************************************************************************)
\* pictures a user loads: one colour each, so that the worker's random draws
\* have one outcome
PagePictures ==
    { Picture(1, 1, << <<255, 0, 128, 255>> >>),
      Picture(2, 1, << <<9, 9, 9, 255>>, <<9, 9, 9, 255>> >>) }

\* values of the range inputs: the model leaves them where they start and
\* changes the two checkboxes
PageBlockSizes == {InitialBlockSize}
PagePaletteSizes == {InitialPaletteSize}

Controls ==
    [doPixelate : BOOLEAN, blockSize : PageBlockSizes,
     doQuantize : BOOLEAN, paletteSize : PagePaletteSizes]

\* lines 25-48: onMount, in a browser with or without OffscreenCanvas and
\* Worker. Both effects run once here and return at lines 51 and 83.
OnMount ==
    /\ ~mounted
    /\ mounted' = TRUE
    /\ \E hasOffscreenCanvas \in BOOLEAN, hasWorker \in BOOLEAN :
          /\ originalCanvas' = hasOffscreenCanvas
          /\ worker' = hasWorker
    /\ UNCHANGED <<image, controls, processTimeout, timerArmed, isProcessing,
                   pendingRun, toWorker, toMain, canvas, hist>>
    /\ UNCHANGED coreVars

\* lines 93-135: drawOriginal sets `image` and clears the output canvas,
\* unless a canvas is missing
drawOriginal(pic) ==
    IF ~originalCanvas
    THEN [image |-> image, canvas |-> canvas]
    ELSE [image |-> [width |-> pic.width, height |-> pic.height,
                     bytes |-> pic.bytes, none |-> FALSE],
          canvas |-> <<>>]

\* lines 62-73: img.onload of a chosen file: drawOriginal, then
\* processAndRender
ImgOnLoad ==
    /\ mounted
    /\ RoomForRequest
    /\ \E pic \in PagePictures :
          LET drawn == drawOriginal(pic)
          IN  /\ image' = drawn.image
              /\ canvas' = drawn.canvas
              /\ SetPageState(processAndRender(PageState, worker, drawn.image, controls))
    /\ UNCHANGED <<mounted, worker, originalCanvas, controls, processTimeout,
                   timerArmed, toMain>>
    /\ UNCHANGED coreVars

\* a bound control changes, and the effect of lines 81-91 runs: without a
\* picture it returns, else it clears the old timer and sets a new one
ControlChanged ==
    /\ mounted
    /\ \E c \in Controls :
          /\ c # controls
          /\ Cardinality({f \in DOMAIN c : c[f] # controls[f]}) = 1
          /\ controls' = c
    /\ IF image.none
       THEN UNCHANGED <<processTimeout, timerArmed>>
       ELSE processTimeout' = "set" /\ timerArmed' = TRUE
    /\ UNCHANGED <<mounted, worker, originalCanvas, image, isProcessing, pendingRun,
                   toWorker, toMain, canvas, hist>>
    /\ UNCHANGED coreVars

\* lines 87-89: the timer of 150 ms fires and calls processAndRender
TimeoutFires ==
    /\ timerArmed
    /\ RoomForRequest
    /\ timerArmed' = FALSE
    /\ SetPageState(processAndRender(PageState, worker, image, controls))
    /\ UNCHANGED <<mounted, worker, originalCanvas, image, controls, processTimeout,
                   toMain, canvas>>
    /\ UNCHANGED coreVars

\* the worker handles its oldest request and posts the response
WorkerOnMessage ==
    /\ toWorker # <<>>
    /\ \E response \in selfOnMessage(Head(toWorker)) :
          toMain' = Append(toMain, response)
    /\ toWorker' = Tail(toWorker)
    /\ UNCHANGED <<mounted, worker, originalCanvas, image, controls, processTimeout,
                   timerArmed, isProcessing, pendingRun, canvas, hist>>
    /\ UNCHANGED coreVars

\* lines 33-46: worker.onmessage draws the response (the output canvas and
\* its context exist once mounted); it posts nothing
workerOnMessage(st, response) == st

PageOnMessage ==
    /\ toMain # <<>>
    /\ LET st == workerOnMessage(PageState, Head(toMain))
       IN  SetPageState(
             [st EXCEPT
                !.hist.lastN = hist.busyCalls,
                !.hist.lastAtOnce = hist.busyPosts,
                !.hist.lastFollowUps = Len(st.toWorker) - Len(toWorker),
                !.hist.busyCalls = 0,
                !.hist.busyPosts = 0])
    /\ canvas' = Head(toMain)
    /\ toMain' = Tail(toMain)
    /\ UNCHANGED <<mounted, worker, originalCanvas, image, controls, processTimeout,
                   timerArmed>>
    /\ UNCHANGED coreVars

Init ==
    /\ PageInit
    /\ heap = <<>>
    /\ source = NoResult
    /\ args = [pixelate |-> FALSE, blockSize |-> <<1, 1>>, quantize |-> FALSE,
               paletteSize |-> 1, maxKMeansIters |-> 0]
    /\ result = NoResult
    /\ trace = NoTrace
    /\ srcBytes = <<>>

Next ==
    \/ OnMount
    \/ ImgOnLoad
    \/ ControlChanged
    \/ TimeoutFires
    \/ WorkerOnMessage
    \/ PageOnMessage

Spec == Init /\ [][Next]_vars

(***************************************************************************)
(* Properties of processImage and its stages                               *)
(***************************************************************************)
Done == result # NoResult

\* the bytes of the returned buffer
Output == heap[result.data]

\* the bytes of the working copy after the quantization stage
Quantized == trace.beforePixelate

PixelsOf(img) == 0..(img.width * img.height - 1)

\* C3: processImage leaves the bytes of the source buffer as they were, and
\* the buffer it returns is another buffer than the source's.
C3_SourceNotMutated ==
    Done => /\ heap[source.data] = srcBytes
            /\ result.data # source.data

\* a call with both effects on whose output differs from the source
C3_Witness ==
    /\ Done /\ args.quantize /\ args.pixelate
    /\ Output # srcBytes
    /\ heap[source.data] = srcBytes

\* the top-left corners of the size x size grid blocks lying fully inside
FullBlocks(w, h, size) ==
    {b \in (0..w) \X (0..h) :
        /\ b[1] % size = 0 /\ b[2] % size = 0
        /\ b[1] + size <= w /\ b[2] + size <= h}

\* C4: after pixelateImage every pixel of a block fully inside the picture
\* holds the RGBA the block's centre pixel (blockX + floor(size/2),
\* blockY + floor(size/2)) held before pixelation; a 4x4 picture with
\* blockSize 4 and no quantization becomes the original pixel (2,2) everywhere.
C4_BlockInvariant ==
    (Done /\ args.pixelate) =>
        LET w    == source.width
            h    == source.height
            size == Max(1, args.blockSize[1] \div args.blockSize[2])
        IN  /\ \A b \in FullBlocks(w, h, size) :
                 \A x \in b[1]..(b[1] + size - 1), y \in b[2]..(b[2] + size - 1) :
                    RGBAAt(Output, y * w + x)
                        = RGBAAt(Quantized,
                                 (b[2] + (size \div 2)) * w + b[1] + (size \div 2))
            /\ (w = 4 /\ h = 4 /\ args.blockSize = <<4, 1>> /\ ~args.quantize) =>
                 \A i \in 0..15 : RGBAAt(Output, i) = RGBAAt(srcBytes, 10)

\* the 4x4 picture pixelated with blockSize 4, quantization off
C4_Witness ==
    /\ Done /\ args.pixelate /\ ~args.quantize
    /\ source.width = 4 /\ source.height = 4 /\ args.blockSize = <<4, 1>>
    /\ Output # srcBytes

\* C5: the palette buildPalette returns has min(max(1,k),256) entries when the
\* picture has a pixel, and one entry when it has none.
C5_PaletteLength ==
    (Done /\ args.quantize) =>
        Len(trace.palette) =
            IF source.width * source.height >= 1
            THEN Min(Max(1, args.paletteSize), 256)
            ELSE 1

\* a request for 300 colours answered with 256
C5_Witness ==
    /\ Done /\ args.quantize /\ args.paletteSize = 300
    /\ Len(trace.palette) = 256

\* C6 as claimed: for a 1x1 picture the palette has one entry whatever
\* paletteSize is, and the output is 1x1.
C6_Original ==
    (Done /\ source.width = 1 /\ source.height = 1) =>
        /\ result.width = 1 /\ result.height = 1
        /\ args.quantize => Len(trace.palette) = 1

\* C6 amended: for a 1x1 picture the output is 1x1 and holds the source's
\* bytes, and the palette (of min(max(1,k),256) entries) holds one colour
\* only: every entry is the pixel's RGB.
C6_OneColour ==
    (Done /\ source.width = 1 /\ source.height = 1) =>
        /\ result.width = 1 /\ result.height = 1 /\ Len(Output) = 4
        /\ args.quantize =>
             /\ \A j \in 1..Len(trace.palette) : trace.palette[j] = RGBAt(srcBytes, 0)
             /\ Len(trace.palette) = Min(Max(1, args.paletteSize), 256)

\* a 1x1 picture quantized with 16 colours asked for
C6_Witness ==
    /\ Done /\ source.width = 1 /\ source.height = 1
    /\ args.quantize /\ args.paletteSize = 16
    /\ Len(trace.palette) = 16

\* the palette positions (1-based) at least distance from p
Nearest(p, palette) ==
    {m \in 1..Len(palette) :
        \A n \in 1..Len(palette) : Dist(p, palette[m]) <= Dist(p, palette[n])}

LeastOf(S) == CHOOSE m \in S : \A n \in S : m <= n

\* C7: after qunatizeImage every pixel's RGB is the RGB of the lowest-index
\* palette entry among those nearest its previous RGB, and its alpha is as it
\* was.
C7_QuantizationClosure ==
    (Done /\ args.quantize) =>
        \A i \in PixelsOf(source) :
            /\ RGBAt(Quantized, i) =
                 trace.palette[LeastOf(Nearest(RGBAt(trace.beforeQuantize, i),
                                               trace.palette))]
            /\ Quantized[4 * i + 4] = trace.beforeQuantize[4 * i + 4]

\* a pixel at the same least distance from two palette entries of different
\* colours
C7_Witness ==
    /\ Done /\ args.quantize
    /\ \E i \in PixelsOf(source) :
          \E m, n \in Nearest(RGBAt(trace.beforeQuantize, i), trace.palette) :
              trace.palette[m] # trace.palette[n]

IsScenarioA ==
    /\ srcBytes = ScenarioA.bytes /\ source.width = 4 /\ source.height = 1
    /\ args.quantize /\ args.paletteSize = 2 /\ ~args.pixelate
    /\ args.maxKMeansIters = DefaultMaxKMeansIters

\* C8: in scenario A the two dark pixels get one RGB and the two light pixels
\* another, whatever the random draws.
C8_ScenarioA ==
    (Done /\ IsScenarioA) =>
        /\ RGBAt(Output, 0) = RGBAt(Output, 1)
        /\ RGBAt(Output, 2) = RGBAt(Output, 3)
        /\ RGBAt(Output, 0) # RGBAt(Output, 2)

C8_Witness ==
    /\ Done /\ IsScenarioA
    /\ RGBAt(Output, 0) = <<5, 0, 0>>
    /\ RGBAt(Output, 3) = <<205, 200, 200>>

\* C9: with neither effect the returned buffer has the source's width and
\* height and the source's bytes.
C9_NeitherEffect ==
    (Done /\ ~args.quantize /\ ~args.pixelate) =>
        /\ result.width = source.width
        /\ result.height = source.height
        /\ Output = srcBytes

C9_Witness ==
    /\ Done /\ ~args.quantize /\ ~args.pixelate
    /\ source.width = 4 /\ source.height = 4
    /\ Output = srcBytes /\ result.data # source.data

(***************************************************************************)
(* Properties of the request logic                                         *)
(***************************************************************************)
\* C1: at most one request is in flight, and a processAndRender call made
\* with a request in flight posts nothing at once.
C1_SingleInFlight ==
    /\ InFlight <= 1
    /\ hist.busyPosts = 0

\* C2: when a response arrives after n >= 1 processAndRender calls made with
\* a request in flight, those calls have led to one request in all, posted on
\* the response's arrival.
C2_OneFollowUp ==
    hist.lastN >= 1 =>
        /\ hist.lastFollowUps = 1
        /\ hist.lastAtOnce + hist.lastFollowUps = 1

\* C10: between event handlers isProcessing and pendingRun are false, line
\* 141 has never been reached, and the latest processAndRender call either
\* returned at line 138 (no worker or no picture) or reached postMessage once.
C10_FlagsNeverHeld ==
    /\ ~isProcessing
    /\ ~pendingRun
    /\ ~hist.pendingTaken
    /\ hist.lastCallPosts \in {-2, -1, 1}
    /\ hist.lastCallPosts = -1 => (~worker \/ image.none)
    /\ hist.busyPosts = hist.busyCalls

\* a call made with a request in flight has posted a second request
C10_Witness ==
    /\ InFlight >= 2
    /\ hist.busyCalls >= 1
    /\ hist.lastCallPosts = 1
    /\ ~isProcessing /\ ~pendingRun

====
